---- MODULE Spec2Model ----
(***************************************************************************)
(* bitwise-io: BitWriter, BitReader and Bit of src/src/lib.rs as state     *)
(* machines.  A Bit is modelled by its discriminant (Zero = 0, One = 1),   *)
(* a byte by a number in 0..255, a queue or a buffer by a sequence.        *)
(***************************************************************************)
EXTENDS Integers, Sequences, FiniteSets, TLC

VARIABLES
    w_buf,      \* BitWriter.buf: the queue of pending bits, head first
    pad_zero,   \* BitWriter.pad_zero
    sink,       \* BitWriter.inner: the bytes the sink has accepted so far
    w_alive,    \* FALSE once the BitWriter has been dropped
    w_singles,  \* number of write() calls made by the caller
    w_bulks,    \* number of write_bits() calls made by the caller
    w_flushes,  \* number of write_buf() calls made by the caller
    w_last      \* what the last BitWriter operation did (observation only)

VARIABLES
    src,        \* the content of the byte source the BitReader wraps
    src_pos,    \* BufRead: number of bytes of src consumed so far
    src_view,   \* BufRead: length of the view fill_buf currently holds (0: none)
    src_errs,   \* number of fill_buf calls that failed so far
    r_state,    \* "none", "live", "failed" (new returned Err), "panicked"
    r_buf,      \* BitReader.buf: the snapshot
    r_pos,      \* BitReader.pos
    init_read,  \* BitReader.init_read
    r_out,      \* the bits the successful read() calls returned, in order
    r_last      \* what the last BitReader operation did (observation only)

VARIABLES
    conv        \* the last Bit::from conversion: type, value, resulting Bit

wvars == <<w_buf, pad_zero, sink, w_alive, w_singles, w_bulks, w_flushes, w_last>>

rvars == <<src, src_pos, src_view, src_errs, r_state, r_buf, r_pos, init_read,
           r_out, r_last>>

vars == <<wvars, rvars, conv>>

(***************************************************************************)
(* Program constants and bounds of the model                               *)
(***************************************************************************)
DEFAULT_BUF_SIZE == 1024

\* the documented capacity of the queue in bits: DEFAULT_BUF_SIZE bytes, 8 bits
\* each (with_capacity: capacity * 8)
DocThresholdBits == DEFAULT_BUF_SIZE * 8

\* write() calls per run of the small writer specification
MaxBits == 9

\* caller's write_buf() calls per run
MaxFlush == 1

\* write_bits() calls per run of the threshold specification
MaxBulk == 1

\* write() calls per run of the threshold specification
MaxTail == 2

\* length of the source's content, in bytes
MaxSrc == 3

\* length of the view one fill_buf of the source fetches, in bytes
MaxChunk == 3

\* fill_buf calls of the source that fail per run
MaxSrcErr == 1

\* the largest n passed to read_multi
MaxMulti == 2

Zero == 0
One == 1
BitSet == {Zero, One}

(***************************************************************************)
(* The sink (std::io::Write): write(bytes) accepts a prefix of the bytes   *)
(* (possibly a short write) or fails; flush() succeeds or fails.           *)
(***************************************************************************)
SinkOutcomes ==
    {[w |-> "all", f |-> "ok"], [w |-> "all", f |-> "err"],
     [w |-> "short", f |-> "ok"], [w |-> "err", f |-> "ok"]}

\* number of bytes the sink accepts of n under outcome o.w (-1: the write fails)
Accepted(o, n) ==
    CASE o.w = "all" -> n
      [] o.w = "short" -> IF n > 0 THEN n - 1 ELSE 0
      [] OTHER -> -1

Take(s, n) == SubSeq(s, 1, n)
Drop(s, n) == SubSeq(s, n + 1, Len(s))

(***************************************************************************)
(* BitWriter                                                               *)
(***************************************************************************)
\* writer_pad_buf: for _ in 0..(len % 8) push_back(pad_bit)
writer_pad_buf(q, pz) ==
    LET pad_bit == IF pz THEN Zero ELSE One
    IN  q \o [i \in 1..(Len(q) % 8) |-> pad_bit]

\* ByteLoop shifting after every bit, the last one included
RECURSIVE ByteLoop_shift_always(_, _, _)
ByteLoop_shift_always(q, i, byte) ==
    IF i > 7 THEN byte
    ELSE LET b1 == IF q[i + 1] = One /\ byte % 2 = 0 THEN byte + 1 ELSE byte
         IN  ByteLoop_shift_always(q, i + 1, (b1 * 2) % 256)

\* the inner loop of writer_buf_to_bytes over i in 0..8: byte |= bit; shift left
\* unless i = 7 (byte is a u8)
RECURSIVE ByteLoop(_, _, _)
ByteLoop(q, i, byte) ==
    IF i > 7 THEN byte
    ELSE LET b1 == IF q[i + 1] = One /\ byte % 2 = 0 THEN byte + 1 ELSE byte
             b2 == IF i < 7 THEN (b1 * 2) % 256 ELSE b1
         IN  ByteLoop(q, i + 1, b2)

\* One test of the loop condition of writer_buf_to_bytes and, when it holds, one
\* run of the body: pop 8 bits from the front into one byte, push the byte
buf_to_bytes_step(st) ==
    IF Len(st.buf) >= 8
    THEN [buf |-> Drop(st.buf, 8), bytes |-> Append(st.bytes, ByteLoop(st.buf, 0, 0))]
    ELSE st

\* n tests of the loop condition in a row (split in halves, each half evaluated
\* before the next, only to keep the evaluation shallow)
RECURSIVE buf_to_bytes_iter(_, _)
buf_to_bytes_iter(st, n) ==
    IF n <= 0 THEN st
    ELSE IF n = 1 THEN buf_to_bytes_step(st)
    ELSE LET left == buf_to_bytes_iter(st, n \div 2)
         IN  IF Len(left.buf) >= 0 THEN buf_to_bytes_iter(left, n - (n \div 2)) ELSE left

\* writer_buf_to_bytes leaving its loop after one byte
writer_buf_to_bytes_once(q) ==
    buf_to_bytes_iter([buf |-> q, bytes |-> <<>>], 1)

\* writer_buf_to_bytes: while writer.buf.len() >= 8 { ... }; the loop has ended
\* after at most len / 8 + 1 tests of its condition
writer_buf_to_bytes(q) ==
    buf_to_bytes_iter([buf |-> q, bytes |-> <<>>], Len(q) \div 8 + 1)

\* write_buf() putting the drained bits back into the queue when the sink fails
write_buf_restoring(q, pz, snk, o) ==
    LET padded == writer_pad_buf(q, pz)
        d == writer_buf_to_bytes(padded)
        n == Accepted(o, Len(d.bytes))
        wres == IF n < 0 THEN "SinkWriteErr" ELSE "Ok"
        fres == IF o.f = "err" THEN "SinkFlushErr" ELSE "Ok"
        res == IF wres = "Ok" THEN fres ELSE wres
    IN  [buf |-> IF res = "Ok" THEN d.buf ELSE padded,
         padded |-> padded,
         bytes |-> d.bytes,
         accepted |-> n,
         sink |-> IF n >= 0 THEN snk \o Take(d.bytes, n) ELSE snk,
         calls |-> IF wres = "Ok"
                   THEN <<[f |-> "write", r |-> wres], [f |-> "flush", r |-> fres]>>
                   ELSE <<[f |-> "write", r |-> wres]>>,
         flushed |-> 1,
         res |-> res]

\* BitWriter::write_buf on queue q against a sink behaving as o:
\* match inner.write(&bytes) { Ok(_) => inner.flush(), Err(err) => Err(err) }
write_buf(q, pz, snk, o) ==
    LET padded == writer_pad_buf(q, pz)
        d == writer_buf_to_bytes(padded)
        n == Accepted(o, Len(d.bytes))
        wres == IF n < 0 THEN "SinkWriteErr" ELSE "Ok"
        fres == IF o.f = "err" THEN "SinkFlushErr" ELSE "Ok"
    IN  [buf |-> d.buf,
         padded |-> padded,
         bytes |-> d.bytes,
         accepted |-> n,
         sink |-> IF n >= 0 THEN snk \o Take(d.bytes, n) ELSE snk,
         calls |-> IF wres = "Ok"
                   THEN <<[f |-> "write", r |-> wres], [f |-> "flush", r |-> fres]>>
                   ELSE <<[f |-> "write", r |-> wres]>>,
         flushed |-> 1,
         res |-> IF wres = "Ok" THEN fres ELSE wres]

\* an operation that does not call write_buf
NoFlush(q, snk) ==
    [buf |-> q, padded |-> <<>>, bytes |-> <<>>, accepted |-> 0, sink |-> snk,
     calls |-> <<>>, flushed |-> 0, res |-> "Ok"]

\* write() flushing one bit late
write_flushes_late(len) == len = DEFAULT_BUF_SIZE + 1

\* the test of BitWriter::write on the length of the queue
write_flushes(len) == len = DEFAULT_BUF_SIZE

\* write() appending the bit whether or not the flush succeeded
write_appends_after_failure(q, pz, snk, bit, o) ==
    IF write_flushes(Len(q))
    THEN LET r == write_buf(q, pz, snk, o)
         IN  [r EXCEPT !.buf = Append(r.buf, bit)]
    ELSE [NoFlush(q, snk) EXCEPT !.buf = Append(q, bit)]

\* BitWriter::write
write(q, pz, snk, bit, o) ==
    IF write_flushes(Len(q))
    THEN LET r == write_buf(q, pz, snk, o)
         IN  IF r.res = "Ok"
             THEN [r EXCEPT !.buf = Append(r.buf, bit)]
             ELSE r
    ELSE [NoFlush(q, snk) EXCEPT !.buf = Append(q, bit)]

\* discard_non_byte() popping at the front of the queue
RECURSIVE discard_pop_front(_)
discard_pop_front(q) ==
    IF Len(q) % 8 # 0 THEN discard_pop_front(Drop(q, 1)) ELSE q

\* BitWriter::discard_non_byte: while len % 8 != 0 pop_back
RECURSIVE discard_non_byte(_)
discard_non_byte(q) ==
    IF Len(q) % 8 # 0 THEN discard_non_byte(Take(q, Len(q) - 1)) ELSE q

\* BitWriter::write_bits: for bit in bits { self.write(bit)? }.
\* The iterations whose write() only appends are taken in one step: k is the
\* number of bits appended before the first write() of the rest that flushes.
\* os: how the sink behaves on the successive flushes of the call; acc: what
\* the call did so far.
RECURSIVE write_bits_loop(_, _, _, _, _, _)
write_bits_loop(q, pz, snk, bits, os, acc) ==
    LET n == Len(bits)
        k == CHOOSE j \in 0..n :
                 /\ j = n \/ write_flushes(Len(q) + j)
                 /\ \A i \in 0..(j - 1) : ~write_flushes(Len(q) + i)
    IN  IF k = n
        THEN [acc EXCEPT !.buf = q \o bits, !.sink = snk]
        ELSE LET r == write(q \o Take(bits, k), pz, snk, bits[k + 1], Head(os))
                 acc2 == [r EXCEPT !.bytes = acc.bytes \o r.bytes,
                                   !.accepted = acc.accepted + (IF r.accepted > 0 THEN r.accepted ELSE 0),
                                   !.calls = acc.calls \o r.calls,
                                   !.flushed = acc.flushed + r.flushed]
             IN  IF r.res # "Ok"
                 THEN acc2
                 ELSE write_bits_loop(r.buf, pz, r.sink, Drop(bits, k + 1),
                                      IF Len(os) > 1 THEN Tail(os) ELSE os, acc2)

write_bits(q, pz, snk, bits, os) ==
    write_bits_loop(q, pz, snk, bits, os, NoFlush(q, snk))

\* the record of an operation: the queue and the sink before it, its argument,
\* what it returned, what its write_buf (if any) padded, drained and handed to
\* the sink, and the calls it made on the sink with their results
Observe(op, r, arg) ==
    [op |-> op, pre |-> w_buf, sink0 |-> sink, arg |-> arg, res |-> r.res,
     padded |-> r.padded, bytes |-> r.bytes, accepted |-> r.accepted,
     calls |-> r.calls, flushes |-> r.flushed]

NoOp == [op |-> "new", pre |-> <<>>, sink0 |-> <<>>, arg |-> <<>>, res |-> "Ok",
         padded |-> <<>>, bytes |-> <<>>, accepted |-> 0, calls |-> <<>>,
         flushes |-> 0]

\* BitWriter::new(inner, pad_zero): an empty queue, no I/O
WriterInit ==
    /\ w_buf = <<>>
    /\ pad_zero \in BOOLEAN
    /\ sink = <<>>
    /\ w_alive = TRUE
    /\ w_singles = 0
    /\ w_bulks = 0
    /\ w_flushes = 0
    /\ w_last = NoOp

DoWrite(bit, o) ==
    /\ w_alive
    /\ \E r \in {write(w_buf, pad_zero, sink, bit, o)} :
           /\ w_buf' = r.buf
           /\ sink' = r.sink
           /\ w_last' = Observe("write", r, <<bit>>)
    /\ w_singles' = w_singles + 1
    /\ UNCHANGED <<rvars, conv, pad_zero, w_alive, w_bulks, w_flushes>>

\* write() in the small specification: the queue stays far below the threshold,
\* the sink is not touched
Write ==
    \E bit \in BitSet :
        /\ w_singles < MaxBits
        /\ DoWrite(bit, [w |-> "all", f |-> "ok"])

\* write() in the threshold specification
WriteT ==
    \E bit \in BitSet, o \in SinkOutcomes :
        /\ w_singles < MaxTail
        /\ DoWrite(bit, o)

\* the bit vectors the caller passes to write_bits: runs of one bit around the
\* threshold
BulkLens == {DEFAULT_BUF_SIZE, DEFAULT_BUF_SIZE + 1}
BulkInputs == {[i \in 1..k |-> b] : k \in BulkLens, b \in BitSet}

WriteBitsT ==
    \E bits \in BulkInputs, o \in SinkOutcomes :
        /\ w_alive
        /\ w_bulks < MaxBulk
        /\ \E r \in {write_bits(w_buf, pad_zero, sink, bits, <<o>>)} :
               /\ w_buf' = r.buf
               /\ sink' = r.sink
               /\ w_last' = Observe("write_bits", r, bits)
        /\ w_bulks' = w_bulks + 1
        /\ UNCHANGED <<rvars, conv, pad_zero, w_alive, w_singles, w_flushes>>

\* write_bits in the specification of the queue bound: runs of Zero, over a
\* sink that accepts every write and flush
WriteBitsB ==
    \E k \in BulkLens :
        /\ w_alive
        /\ w_bulks < MaxBulk
        /\ \E r \in {write_bits(w_buf, pad_zero, sink, [i \in 1..k |-> Zero],
                                  <<[w |-> "all", f |-> "ok"]>>)} :
               /\ w_buf' = r.buf
               /\ sink' = r.sink
               /\ w_last' = Observe("write_bits", r, [i \in 1..k |-> Zero])
        /\ w_bulks' = w_bulks + 1
        /\ UNCHANGED <<rvars, conv, pad_zero, w_alive, w_singles, w_flushes>>

\* write() in the specification of the queue bound: the bit One
WriteB ==
    \E o \in SinkOutcomes :
        /\ w_singles < MaxTail
        /\ DoWrite(One, o)

WriteBuf ==
    \E o \in SinkOutcomes :
        /\ w_alive
        /\ w_flushes < MaxFlush
        /\ \E r \in {write_buf(w_buf, pad_zero, sink, o)} :
               /\ w_buf' = r.buf
               /\ sink' = r.sink
               /\ w_last' = Observe("write_buf", r, <<>>)
        /\ w_flushes' = w_flushes + 1
        /\ UNCHANGED <<rvars, conv, pad_zero, w_alive, w_singles, w_bulks>>

DiscardNonByte ==
    /\ w_alive
    /\ w_buf' = discard_non_byte(w_buf)
    /\ w_last' = Observe("discard_non_byte", NoFlush(w_buf, sink), <<>>)
    /\ UNCHANGED <<rvars, conv, pad_zero, sink, w_alive, w_singles, w_bulks, w_flushes>>

\* Drop for BitWriter: let _ = self.write_buf()
DropWriter ==
    \E o \in SinkOutcomes :
        /\ w_alive
        /\ \E r \in {write_buf(w_buf, pad_zero, sink, o)} :
               /\ w_buf' = r.buf
               /\ sink' = r.sink
               /\ w_last' = [Observe("drop", r, <<>>) EXCEPT !.res = "discarded"]
        /\ w_alive' = FALSE
        /\ UNCHANGED <<rvars, conv, pad_zero, w_singles, w_bulks, w_flushes>>

(***************************************************************************)
(* Bit: the From conversions                                               *)
(***************************************************************************)
From_u8(value) == IF value > 0 THEN One ELSE Zero
From_u16(value) == IF value > 0 THEN One ELSE Zero
From_u32(value) == IF value > 0 THEN One ELSE Zero
From_u64(value) == IF value > 0 THEN One ELSE Zero
From_i8(value) == IF value > 0 THEN One ELSE Zero
From_i16(value) == IF value > 0 THEN One ELSE Zero
From_i32(value) == IF value > 0 THEN One ELSE Zero
From_i64(value) == IF value > 0 THEN One ELSE Zero
From_usize(value) == IF value > 0 THEN One ELSE Zero
From_bool(value) == IF value = FALSE THEN Zero ELSE One

NumericTypes == {"u8", "u16", "u32", "u64", "usize", "i8", "i16", "i32", "i64"}
SignedTypes == {"i8", "i16", "i32", "i64"}

\* the values converted: every u8 and i8, and for the wider types zero, the
\* values next to it and values far from it
ValuesOf(ty) ==
    CASE ty = "u8" -> 0..255
      [] ty = "i8" -> (-128)..127
      [] ty = "bool" -> BOOLEAN
      [] ty \in SignedTypes -> {-2147483647, -32768, -129, -1, 0, 1, 128, 32767, 2147483647}
      [] OTHER -> {0, 1, 2, 255, 256, 65535, 65536, 2147483647}

BitFrom(ty, value) ==
    CASE ty = "u8" -> From_u8(value)
      [] ty = "u16" -> From_u16(value)
      [] ty = "u32" -> From_u32(value)
      [] ty = "u64" -> From_u64(value)
      [] ty = "usize" -> From_usize(value)
      [] ty = "i8" -> From_i8(value)
      [] ty = "i16" -> From_i16(value)
      [] ty = "i32" -> From_i32(value)
      [] ty = "i64" -> From_i64(value)
      [] ty = "bool" -> From_bool(value)

ConvInit == conv = [ty |-> "none", value |-> 0, bit |-> Zero]

Convert ==
    \E ty \in NumericTypes \cup {"bool"} :
        \E value \in ValuesOf(ty) :
            /\ conv' = [ty |-> ty, value |-> value, bit |-> BitFrom(ty, value)]
            /\ UNCHANGED <<wvars, rvars>>

(***************************************************************************)
(* The byte source (std::io::BufRead, as BufReader and Cursor implement    *)
(* it). A reader state st carries the source's cursor with it.             *)
(***************************************************************************)
ByteSet == {0, 1, 128, 165}

RECURSIVE SeqsUpTo(_, _)
SeqsUpTo(S, n) ==
    IF n = 0 THEN {<<>>}
    ELSE LET shorter == SeqsUpTo(S, n - 1)
         IN  shorter \cup {Append(q, x) : q \in {t \in shorter : Len(t) = n - 1}, x \in S}

\* what one fill_buf that has to fetch does: fail (0), or fetch up to c bytes
FillChoices == 0..MaxChunk
FillFails(c) == c = 0

Min(a, b) == IF a < b THEN a ELSE b

\* BufRead::consume(amt)
consume(st, amt) ==
    LET n == Min(amt, st.sview)
    IN  [st EXCEPT !.spos = st.spos + n, !.sview = st.sview - n,
                   !.consumes = Append(st.consumes, [amt |-> amt, view |-> st.sview])]

\* BufRead::fill_buf: the view held if there is one, else a newly fetched one
\* (empty only at the end of the content), or a failure
fill_buf(st, content, c) ==
    IF st.sview > 0 THEN [st EXCEPT !.fills = Append(st.fills, st.sview)]
    ELSE IF FillFails(c) THEN [st EXCEPT !.res = "SourceErr", !.errs = st.errs + 1]
    ELSE LET n == Min(c, Len(content) - st.spos)
         IN  [st EXCEPT !.sview = n, !.fills = Append(st.fills, n)]

View(st, content) == SubSeq(content, st.spos + 1, st.spos + st.sview)

(***************************************************************************)
(* BitReader                                                               *)
(***************************************************************************)
\* reader_fill_buf: consume(buf.len()); buf = fill_buf()?.to_vec()
reader_fill_buf(st, content, c) ==
    LET s1 == consume(st, Len(st.buf))
        s2 == fill_buf(s1, content, c)
    IN  IF s2.res # "Ok" THEN s2 ELSE [s2 EXCEPT !.buf = View(s2, content)]

\* reader_update: refill when byte_offset has reached the end of the snapshot
reader_update(st, content, byte_offset, c) ==
    IF byte_offset >= Len(st.buf)
    THEN LET s1 == reader_fill_buf(st, content, c)
         IN  IF s1.res # "Ok" THEN s1
             ELSE [s1 EXCEPT !.pos = 0, !.byte_o = 0]
    ELSE [st EXCEPT !.byte_o = byte_offset]

\* byte & mask for a mask of one bit
BitAnd(byte, mask) == IF (byte \div mask) % 2 = 1 THEN mask ELSE 0

Pow2(n) == IF n = 0 THEN 1 ELSE IF n = 1 THEN 2 ELSE IF n = 2 THEN 4
           ELSE IF n = 3 THEN 8 ELSE IF n = 4 THEN 16 ELSE IF n = 5 THEN 32
           ELSE IF n = 6 THEN 64 ELSE 128

\* BitReader::is_empty
is_empty(buf) == buf = <<>>

\* How the test of an empty snapshot in read() ends. Its block holds the Err
\* value without returning it: "return" is the evident intent (the error is
\* returned), "fallthrough" the text as written (the value is dropped and
\* read() goes on to index the empty buffer, which panics).
EofModes == {"return", "fallthrough"}

\* BitReader::read from the extraction of the bit on (lines 58 to 77)
read_bit(st, content, c2) ==
    LET byte_offset == st.pos \div 8
        bit_offset == st.pos % 8
    IN  IF byte_offset >= Len(st.buf) THEN [st EXCEPT !.res = "panic"]
        ELSE LET byte == st.buf[byte_offset + 1]
                 mask == Pow2(7 - bit_offset)
                 bit == From_u8(BitAnd(byte, mask))
             IN  IF bit_offset + 1 > 7
                 THEN LET s1 == reader_update(st, content, byte_offset + 1, c2)
                      IN  IF s1.res # "Ok" THEN s1
                          ELSE [s1 EXCEPT !.pos = s1.byte_o * 8, !.bit = <<bit>>]
                 ELSE [st EXCEPT !.pos = byte_offset * 8 + bit_offset + 1,
                                 !.bit = <<bit>>]

\* BitReader::read
read(st, content, c1, c2, mode) ==
    LET s1 == IF st.init_read = FALSE THEN reader_fill_buf(st, content, c1) ELSE st
    IN  IF s1.res # "Ok" THEN s1
        ELSE IF is_empty(s1.buf) /\ mode = "return" THEN [s1 EXCEPT !.res = "EndOfFile"]
        ELSE read_bit(s1, content, c2)

\* read_multi() handing back the bits pushed so far when a read() fails
RECURSIVE read_multi_loop_partial(_, _, _, _, _, _, _)
read_multi_loop_partial(st, content, left, output, c1, c2, mode) ==
    IF left = 0 THEN [st EXCEPT !.bit = output]
    ELSE LET s1 == read([st EXCEPT !.bit = <<>>], content, c1, c2, mode)
         IN  IF s1.res # "Ok" THEN [s1 EXCEPT !.bit = output]
             ELSE read_multi_loop_partial(s1, content, left - 1, output \o s1.bit,
                                          c1, c2, mode)

\* the loop of read_multi with `left` iterations to go:
\* for _ in 0..n { output.push(self.read()?) }; Ok(output).
\* st.bit is what the call returns: the whole output, or nothing with the error
RECURSIVE read_multi_loop(_, _, _, _, _, _, _)
read_multi_loop(st, content, left, output, c1, c2, mode) ==
    IF left = 0 THEN [st EXCEPT !.bit = output]
    ELSE LET s1 == read([st EXCEPT !.bit = <<>>], content, c1, c2, mode)
         IN  IF s1.res # "Ok" THEN [s1 EXCEPT !.bit = <<>>]
             ELSE read_multi_loop(s1, content, left - 1, output \o s1.bit, c1, c2, mode)

\* BitReader::read_multi(n); the source behaves in the same way (c1, c2) in
\* every read() of one call
read_multi(st, content, n, c1, c2, mode) ==
    read_multi_loop(st, content, n, <<>>, c1, c2, mode)

\* the reader and its source as one record, and back
ReaderState ==
    [buf |-> r_buf, pos |-> r_pos, init_read |-> init_read, spos |-> src_pos,
     sview |-> src_view, errs |-> src_errs, res |-> "Ok", bit |-> <<>>,
     byte_o |-> 0, consumes |-> <<>>, fills |-> <<>>]

\* the reader before an operation, as the operation's record keeps it
PreReader == [len |-> Len(r_buf), pos |-> r_pos, op |-> r_last.op]

SetReaderFields(st) ==
    /\ r_buf' = st.buf
    /\ r_pos' = st.pos
    /\ init_read' = st.init_read
    /\ src_pos' = st.spos
    /\ src_view' = st.sview
    /\ src_errs' = st.errs
    /\ r_out' = r_out \o st.bit

\* the record of an operation: what it returned, the calls it made on the
\* source (consume with its argument and the view held then, fill with the
\* length of the view returned), and the reader before it
RLast(st, op) ==
    [op |-> op, res |-> st.res, bit |-> st.bit,
     consumes |-> st.consumes, fills |-> st.fills, pre |-> PreReader]

SetReader(st, op) ==
    /\ SetReaderFields(st)
    /\ r_last' = RLast(st, op)

RNoOp == [op |-> "none", res |-> "Ok", bit |-> <<>>, consumes |-> <<>>, fills |-> <<>>,
          pre |-> [len |-> 0, pos |-> 0, op |-> "none"]]

\* no BitReader yet, over a source holding content
ReaderNone(content) ==
    /\ src = content
    /\ src_pos = 0
    /\ src_view = 0
    /\ src_errs = 0
    /\ r_state = "none"
    /\ r_buf = <<>>
    /\ r_pos = 0
    /\ init_read = FALSE
    /\ r_out = <<>>
    /\ r_last = RNoOp

\* BitReader::new: buf = inner.fill_buf()?.to_vec(); pos: 0, init_read: false
new(st, content, c) ==
    LET s1 == fill_buf(st, content, c)
    IN  IF s1.res # "Ok" THEN s1
        ELSE [s1 EXCEPT !.buf = View(s1, content), !.pos = 0, !.init_read = FALSE]

Allowed(c) == FillFails(c) => src_errs < MaxSrcErr

NewReader ==
    \E c \in FillChoices :
        /\ r_state = "none"
        /\ Allowed(c)
        /\ \E st \in {new(ReaderState, src, c)} :
               /\ SetReader(st, "new")
               /\ r_state' = IF st.res = "Ok" THEN "live" ELSE "failed"
        /\ UNCHANGED <<src, wvars, conv>>

Read ==
    \E c1 \in FillChoices, c2 \in FillChoices, mode \in EofModes :
        /\ r_state = "live"
        /\ Allowed(c1) /\ Allowed(c2)
        /\ \E st \in {read(ReaderState, src, c1, c2, mode)} :
               /\ SetReader(st, "read")
               /\ r_state' = IF st.res = "panic" THEN "panicked" ELSE "live"
        /\ UNCHANGED <<src, wvars, conv>>

ReadMulti ==
    \E n \in 0..MaxMulti, c1 \in FillChoices, c2 \in FillChoices, mode \in EofModes :
        /\ r_state = "live"
        /\ Allowed(c1) /\ Allowed(c2)
        /\ \E st \in {read_multi(ReaderState, src, n, c1, c2, mode)} :
               /\ SetReaderFields(st)
               /\ r_last' = RLast(st, "read_multi") @@
                             [arg |-> [n |-> n, c1 |-> c1, c2 |-> c2, mode |-> mode],
                              from |-> ReaderState]
               /\ r_state' = IF st.res = "panic" THEN "panicked" ELSE "live"
        /\ UNCHANGED <<src, wvars, conv>>

\* a BitReader is constructed over the bytes the sink has received
OpenSink ==
    /\ r_last.op = "none"
    /\ w_last.op = "write_buf"
    /\ src' = sink
    /\ r_last' = [RNoOp EXCEPT !.op = "open"]
    /\ UNCHANGED <<src_pos, src_view, src_errs, r_state, r_buf, r_pos, init_read,
                   r_out, wvars, conv>>

Init == WriterInit /\ ReaderNone(<<>>) /\ ConvInit

Next ==
    \/ Write
    \/ WriteBuf
    \/ DiscardNonByte
    \/ DropWriter

Spec == Init /\ [][Next]_vars

\* The writer around the flush threshold of write()
NextThreshold ==
    \/ WriteBitsT
    \/ WriteT

SpecThreshold == Init /\ [][NextThreshold]_vars

\* The writer with every operation, around the flush threshold of write()
NextBound ==
    \/ WriteBitsB
    \/ WriteB
    \/ WriteBuf
    \/ DiscardNonByte

SpecBound == Init /\ [][NextBound]_vars

\* The reader over every content of the source
InitReader ==
    /\ WriterInit
    /\ ConvInit
    /\ \E content \in SeqsUpTo(ByteSet, MaxSrc) : ReaderNone(content)

NextReader ==
    \/ NewReader
    \/ Read

SpecReader == InitReader /\ [][NextReader]_vars

\* The reader over a source long enough for the bit position to pass the
\* first byte of a snapshot
LongLens == {11, 12}
LongSrc(n) == [i \in 1..n |-> IF i % 2 = 1 THEN 165 ELSE 1]

InitLong ==
    /\ WriterInit
    /\ ConvInit
    /\ \E n \in LongLens : ReaderNone(LongSrc(n))

NextLong ==
    \/ NewReader
    \/ Read

SpecLong == InitLong /\ [][NextLong]_vars

\* The reader with read_multi
MultiBytes == {1, 165}

InitMulti ==
    /\ WriterInit
    /\ ConvInit
    /\ \E content \in SeqsUpTo(MultiBytes, MaxSrc) : ReaderNone(content)

\* read() calls, then one read_multi()
NextMulti ==
    \/ NewReader
    \/ (r_last.op # "read_multi" /\ Read)
    \/ (r_last.op # "read_multi" /\ ReadMulti)

SpecMulti == InitMulti /\ [][NextMulti]_vars

\* The Bit conversions
NextBit == Convert

SpecBit == Init /\ [][NextBit]_vars

\* The writer, then a reader over what the sink received
NextRoundTrip ==
    \/ (r_last.op = "none" /\ w_flushes = 0 /\ Write)
    \/ (r_last.op = "none" /\ WriteBuf)
    \/ OpenSink
    \/ (r_last.op = "open" /\ NewReader)
    \/ Read

SpecRoundTrip == Init /\ [][NextRoundTrip]_vars

(***************************************************************************)
(* Properties                                                              *)
(***************************************************************************)
\* the value of 8 bits, the first one the most significant
ByteOf(bits, from) ==
    bits[from] * 128 + bits[from + 1] * 64 + bits[from + 2] * 32 + bits[from + 3] * 16
    + bits[from + 4] * 8 + bits[from + 5] * 4 + bits[from + 6] * 2 + bits[from + 7]

\* the bits of a byte sequence in stream order, each byte most significant bit first
BitsOf(bytes) ==
    [i \in 1..(8 * Len(bytes)) |->
        (bytes[(i - 1) \div 8 + 1] \div Pow2(7 - ((i - 1) % 8))) % 2]

IsPrefix(p, q) == Len(p) <= Len(q) /\ \A i \in 1..Len(p) : p[i] = q[i]

PadCount(n) == (8 - (n % 8)) % 8
PadBit == IF pad_zero THEN Zero ELSE One
Padded(q) == q \o [i \in 1..PadCount(Len(q)) |-> PadBit]
CeilBytes(n) == (n + 7) \div 8

\* the sink accepted every byte of every write and every flush of the last operation
SinkAccepted ==
    /\ \A i \in 1..Len(w_last.calls) : w_last.calls[i].r = "Ok"
    /\ w_last.accepted = Len(w_last.bytes)

\* C2: write_buf() on a queue of N bits adds exactly (8 - N mod 8) mod 8 pad bits
\* at the tail (Zero if pad_zero, else One) and removes none, hands exactly
\* ceil(N/8) bytes to the sink and leaves the queue empty.
C2_PadToByte ==
    w_last.op = "write_buf" =>
        /\ w_last.padded = Padded(w_last.pre)
        /\ Len(w_last.padded) % 8 = 0
        /\ Len(w_last.bytes) = CeilBytes(Len(w_last.pre))
        /\ w_buf = <<>>

\* C3: write_buf() turns each consecutive group of 8 bits of the queue (the bits
\* written, in insertion order, then the pad bits) into one byte whose most
\* significant bit is the first bit of the group, and hands the bytes to the
\* sink in the order of the groups; One and seven Zero give 0x80, seven Zero
\* and One give 0x01.
C3_ByteAssembly ==
    w_last.flushes >= 1 =>
        /\ IsPrefix(w_last.pre, w_last.padded)
        /\ Len(w_last.bytes) = Len(w_last.padded) \div 8
        /\ \A k \in 1..Len(w_last.bytes) :
               w_last.bytes[k] = ByteOf(w_last.padded, 8 * (k - 1) + 1)
        /\ w_last.accepted >= 0 => sink = w_last.sink0 \o Take(w_last.bytes, w_last.accepted)
        /\ w_last.pre = <<One, Zero, Zero, Zero, Zero, Zero, Zero, Zero>> => w_last.bytes = <<128>>
        /\ w_last.pre = <<Zero, Zero, Zero, Zero, Zero, Zero, Zero, One>> => w_last.bytes = <<1>>

C3_Witness ==
    /\ w_last.op = "write_buf"
    /\ w_last.pre = <<One, Zero, Zero, Zero, Zero, Zero, Zero, Zero>>
    /\ sink = <<128>>

\* C5: dropping the BitWriter performs exactly one write_buf() and discards its
\* result; when the sink accepts every write and flush, every bit pending at
\* the drop, a partial final byte included, has been padded to a whole byte
\* and handed to the sink.
C5_FlushOnDrop ==
    w_last.op = "drop" =>
        /\ w_last.flushes = 1
        /\ w_last.res = "discarded"
        /\ SinkAccepted =>
               /\ w_buf = <<>>
               /\ sink = w_last.sink0 \o w_last.bytes
               /\ BitsOf(w_last.bytes) = Padded(w_last.pre)

\* C6: write(bit) calls write_buf() exactly when the queue holds 8192 bits before
\* the append, at most once, and appends the bit only after that flush
\* succeeded; with fewer than 8192 pending bits it appends the bit and performs
\* no I/O on the sink.
C6_FlushThreshold ==
    w_last.op = "write" =>
        /\ w_last.flushes <= 1
        /\ w_last.flushes = 1 <=> Len(w_last.pre) = DocThresholdBits
        /\ Len(w_last.pre) < DocThresholdBits =>
               /\ w_buf = w_last.pre \o w_last.arg
               /\ w_last.calls = <<>>
               /\ sink = w_last.sink0

\* C7: when write(bit) triggers a flush and the sink's write or flush fails,
\* write() returns that same error and the bit is not appended: the queue is
\* what write_buf() left of it.
C7_FailedFlushBlocksBit ==
    (/\ w_last.op = "write"
     /\ w_last.flushes = 1
     /\ \E i \in 1..Len(w_last.calls) : w_last.calls[i].r # "Ok") =>
        /\ w_last.res = w_last.calls[Len(w_last.calls)].r
        /\ w_last.res # "Ok"
        /\ w_buf = Drop(w_last.padded, 8 * Len(w_last.bytes))
        /\ Len(w_buf) < Len(w_last.pre) + 1

C7_Witness ==
    /\ w_last.op = "write"
    /\ w_last.flushes = 1
    /\ w_last.res = "SinkFlushErr"
    /\ Len(w_last.pre) = DEFAULT_BUF_SIZE
    /\ w_buf = <<>>

\* C8: discard_non_byte() on a queue of N bits leaves exactly its first
\* 8*floor(N/8) bits in order and calls neither write nor flush on the sink;
\* write_buf() on a queue of a whole number of bytes (as discard_non_byte()
\* leaves it) adds no pad bit and emits exactly one byte per 8 bits, assembled
\* from them in order.
C8_DiscardNonByte ==
    /\ w_last.op = "discard_non_byte" =>
           /\ w_buf = Take(w_last.pre, 8 * (Len(w_last.pre) \div 8))
           /\ w_last.calls = <<>>
           /\ sink = w_last.sink0
    /\ (w_last.op = "write_buf" /\ Len(w_last.pre) % 8 = 0) =>
           /\ w_last.padded = w_last.pre
           /\ Len(w_last.bytes) = Len(w_last.pre) \div 8
           /\ BitsOf(w_last.bytes) = w_last.pre

C8_Witness ==
    /\ w_last.op = "discard_non_byte"
    /\ Len(w_last.pre) = 9
    /\ Len(w_buf) = 8
    /\ w_buf = Take(w_last.pre, 8)

\* C9: for every numeric type, converting 0 yields Zero and converting any
\* nonzero value, positive or negative, yields One; false yields Zero and true
\* yields One.
C9_BitConversion ==
    /\ conv.ty \in NumericTypes => (conv.bit = (IF conv.value = 0 THEN Zero ELSE One))
    /\ conv.ty = "bool" => (conv.bit = (IF conv.value THEN One ELSE Zero))

\* C10: is_empty() on a freshly constructed BitReader, before any read(),
\* reports true whatever the source holds.
C10_FreshReaderIsEmpty ==
    (r_state = "live" /\ r_last.op = "new") => is_empty(r_buf)

\* C4: over a source whose content is B, the successive read() calls return the
\* bits of B in stream order, each byte most significant bit first, for all
\* 8*|B| bits, and only the read after the last bit fails, with end-of-stream.
C4_ReadsSourceInOrder ==
    (r_state \in {"live", "panicked"} /\ src_errs = 0) =>
        /\ IsPrefix(r_out, BitsOf(src))
        /\ (r_last.op = "read" /\ r_last.res # "Ok") =>
               /\ r_last.res = "EndOfFile"
               /\ r_out = BitsOf(src)

\* C1: N bits written, write_buf(), then a BitReader over the bytes the sink
\* received: the first ceil(N/8)*8 reads succeed and return the N bits in order
\* followed by (8 - N mod 8) mod 8 pad bits, Zero when pad_zero and One when not.
C1_RoundTrip ==
    (/\ r_last.op # "none"
     /\ w_last.op = "write_buf"
     /\ SinkAccepted
     /\ src_errs = 0) =>
        /\ src = sink
        /\ \/ IsPrefix(r_out, Padded(w_last.pre))
           \/ IsPrefix(Padded(w_last.pre), r_out)
        /\ (r_last.op = "read" /\ r_last.res # "Ok") =>
               Len(r_out) >= Len(Padded(w_last.pre))

\* C11: read() on a BitReader whose snapshot is empty because the source is at
\* its end (a reader over an empty source, or one whose refill produced a
\* snapshot of length zero) fails with the end-of-stream error, returns no bit
\* and leaves the bit position unchanged, and so does every read() after it.
C11_EndOfStream ==
    (/\ r_last.op = "read"
     /\ r_last.pre.len = 0
     /\ r_last.res # "SourceErr") =>
        /\ r_last.res = "EndOfFile"
        /\ r_last.bit = <<>>
        /\ r_pos = r_last.pre.pos
        /\ r_buf = <<>>

\* C14: only the first read() after construction refills before it extracts a
\* bit; a later read() calls consume and fill on the source at most once, and
\* only when the bit it extracted was the last bit of the last byte of the
\* snapshot.
C14_RefillPolicy ==
    (r_last.op = "read" /\ r_last.pre.op # "new") =>
        /\ Len(r_last.consumes) <= 1
        /\ r_last.consumes # <<>> => r_last.pre.pos = 8 * r_last.pre.len - 1

\* C16: every consume(n) the reader calls on the source has n equal to the
\* length of the view the source holds from its last successful fill, not yet
\* consumed: no snapshot is consumed twice, also not by the read() that
\* follows a read() whose fill failed.
C16_ConsumeDiscipline ==
    \A i \in 1..Len(r_last.consumes) :
        r_last.consumes[i].amt = r_last.consumes[i].view

\* C15: whenever the snapshot is not empty, the bit position is below 8 times
\* its length, so that no read() indexes a byte at or beyond the end of the
\* snapshot, whatever the lengths of the views the source returns.
C15_PositionInSnapshot ==
    /\ (r_state \in {"live", "panicked"} /\ r_buf # <<>>) => r_pos < 8 * Len(r_buf)
    /\ (r_last.res = "panic") => r_buf = <<>>

\* n read() calls in a row from reader st (stopping at the first that fails):
\* the reader after them, the bits the successful ones returned, the result
\* of the last one
RECURSIVE ReadsInARow(_, _, _, _, _, _)
ReadsInARow(st, content, n, c1, c2, mode) ==
    IF n = 0 THEN [st |-> st, bits |-> <<>>, res |-> "Ok"]
    ELSE LET s1 == read([st EXCEPT !.bit = <<>>], content, c1, c2, mode)
         IN  IF s1.res # "Ok" THEN [st |-> s1, bits |-> <<>>, res |-> s1.res]
             ELSE LET rest == ReadsInARow(s1, content, n - 1, c1, c2, mode)
                  IN  [st |-> rest.st, bits |-> s1.bit \o rest.bits, res |-> rest.res]

\* C12: read_multi(n) returns the bits that n read() calls in a row return, in
\* the same order, and leaves the reader as they leave it; when the k-th read
\* fails it returns that failure and none of the k-1 bits extracted before,
\* which the reader has consumed all the same.
C12_ReadMultiAsReads ==
    r_last.op = "read_multi" =>
        LET a == r_last.arg
            seq == ReadsInARow(r_last.from, src, a.n, a.c1, a.c2, a.mode)
        IN  /\ r_last.res = seq.res
            /\ r_last.bit = (IF seq.res = "Ok" THEN seq.bits ELSE <<>>)
            /\ seq.res = "Ok" => Len(r_last.bit) = a.n
            /\ r_buf = seq.st.buf
            /\ r_pos = seq.st.pos
            /\ src_pos = seq.st.spos
            /\ src_view = seq.st.sview
            /\ src_errs = seq.st.errs

C12_Witness ==
    /\ r_last.op = "read_multi"
    /\ r_last.arg.n = 2
    /\ r_last.res = "EndOfFile"
    /\ r_last.bit = <<>>
    /\ r_pos = r_last.from.pos + 1

\* C13: write_buf() returns an error exactly when the sink's write or the
\* sink's flush fails, and it is that error; it calls the sink's write once
\* and the sink's flush only after the write succeeded; when it fails, the
\* bits drained from the queue are not put back.
C13_WriteBufErrors ==
    w_last.op = "write_buf" =>
        /\ Len(w_last.calls) >= 1
        /\ w_last.calls[1].f = "write"
        /\ (w_last.res # "Ok") <=> (\E i \in 1..Len(w_last.calls) : w_last.calls[i].r # "Ok")
        /\ w_last.res = w_last.calls[Len(w_last.calls)].r
        /\ (Len(w_last.calls) = 2) <=> (w_last.calls[1].r = "Ok")
        /\ Len(w_last.calls) = 2 => w_last.calls[2].f = "flush"
        /\ w_last.calls[1].r # "Ok" => (w_last.res = "SinkWriteErr" /\ sink = w_last.sink0)
        /\ w_buf = Drop(w_last.padded, 8 * Len(w_last.bytes))
        /\ Len(w_buf) < 8

C13_Witness ==
    /\ w_last.op = "write_buf"
    /\ w_last.res = "SinkWriteErr"
    /\ Len(w_last.bytes) = 1
    /\ Len(w_last.pre) = 8
    /\ w_buf = <<>>
    /\ sink = <<>>

\* C17: when write_buf() returns success, the sink has accepted every byte
\* drained from the queue, also when the sink's write is a short one.
C17_NoLossOnShortWrite ==
    (w_last.op = "write_buf" /\ w_last.res = "Ok") =>
        /\ w_last.accepted = Len(w_last.bytes)
        /\ sink = w_last.sink0 \o w_last.bytes

\* C18: the queue never holds more bits than the threshold write() tests
\* against, and after every write_buf(), successful or not, it holds fewer
\* than 8 bits.
C18_QueueBound ==
    /\ Len(w_buf) <= DEFAULT_BUF_SIZE
    /\ w_last.op = "write_buf" => Len(w_buf) < 8
    /\ (w_last.op \in {"write", "write_bits"} /\ w_last.flushes >= 1 /\ w_last.res # "Ok") =>
           Len(w_buf) < 8

C18_Witness ==
    /\ w_last.op = "write_buf"
    /\ Len(w_last.pre) = DEFAULT_BUF_SIZE
    /\ w_last.res # "Ok"
    /\ w_buf = <<>>

====
